---- MODULE Spec2Model ----
(***************************************************************************)
(* Wave alert (ohana26/waveForcast).  index.js is the scheduled program:   *)
(* main() registers runOnce with cron and calls it once immediately;       *)
(* runOnce fans checkLocation out over LOCATIONS with Promise.all, joins   *)
(* the reports and hands the composite to sendMailAsync.  wave-alert.js    *)
(* (the second source file) holds the earlier variant whose                *)
(* nextExceedances stops at the first hour past the cutoff.                *)
(*                                                                         *)
(* Units.  A wave height is carried in millimetres (0.8 m is 800), so      *)
(* that Math.round(m * 100) is an integer rounding.  An ISO timestamp of   *)
(* the provider ("1970-01-02T10:00", local time of TZ) is carried as the   *)
(* number of local hours since 1970-01-01T00:00; instants are in           *)
(* milliseconds since the epoch, as Date.now() gives them.                 *)
(***************************************************************************)
EXTENDS Integers, Sequences, FiniteSets, TLC

\* ---------------------------------------------------------------- bounds
MaxLen == 3
MaxRuns == 2

\* ---------------------------------------------------------------- config
THRESHOLD_METERS == 800
LOOKAHEAD_DAYS == 2
TzOffsetHours == 2

LOCATIONS ==
  << [name |-> "Tel Aviv", lat |-> 320809, lon |-> 347806],
     [name |-> "Haifa", lat |-> 327940, lon |-> 349896] >>

MsPerHour == 3600 * 1000
MsPerDay == 24 * 3600 * 1000

WeekdayShort == << "Thu", "Fri", "Sat", "Sun", "Mon", "Tue", "Wed" >>

\* ---------------------------------------------------------------- helpers
\* new Date(iso): the instant of a local timestamp of TZ.
DateParse(iso) == (iso - TzOffsetHours) * MsPerHour

\* toLocaleDateString('en-IL', {weekday: 'short', timeZone: TZ}) of new Date(iso).
weekdayLabel(iso) ==
  WeekdayShort[(((DateParse(iso) + TzOffsetHours * MsPerHour) \div MsPerDay) % 7) + 1]

\* Math.round(m * 100), m in millimetres: round half up.
metersToCm(m) == (m + 5) \div 10

\* toLocaleTimeString('en-IL', {hour: '2-digit', minute: '2-digit', timeZone: TZ}).
fmtHourLocal(iso) ==
  LET local == DateParse(iso) + TzOffsetHours * MsPerHour
  IN  << (local \div MsPerHour) % 24, (local \div 60000) % 60 >>

\* Number.prototype.toFixed(3) of a coordinate carried in 1e-4 degrees.
toFixed3(x) == (x + 5) \div 10

\* ---------------------------------------------------------------- fetch
\* What fetchWaveForecast settles with: a rejection carrying err.message, or
\* the parsed JSON body.  A body may lack `hourly`, `hourly.time` or
\* `hourly.wave_height` (the has* flags); an absent array is carried as <<>>.
NoBody == [hasHourly |-> FALSE, hasTime |-> FALSE, time |-> << >>,
           hasHeights |-> FALSE, wave_height |-> << >>]

Body(hasT, t, hasH, h) ==
  [hasHourly |-> TRUE, hasTime |-> hasT, time |-> t, hasHeights |-> hasH, wave_height |-> h]

\* The provider's answer as node-fetch delivers it: fetch() itself rejecting,
\* or a response with a status and a JSON body.
NetworkFailure == [rejects |-> TRUE, status |-> 0, body |-> NoBody]
HttpResponse(status, body) == [rejects |-> FALSE, status |-> status, body |-> body]

fetchWaveForecast(res) ==
  IF res.rejects THEN [threw |-> TRUE, message |-> "fetch failed", forecast |-> NoBody]
  ELSE IF ~(res.status >= 200 /\ res.status <= 299)
       THEN [threw |-> TRUE, message |-> "API error " \o ToString(res.status),
             forecast |-> NoBody]
  ELSE [threw |-> FALSE, message |-> "", forecast |-> res.body]

\* ---------------------------------------------------------------- detect
Threw(msg) == [threw |-> TRUE, message |-> msg, hits |-> << >>]
Returned(hits) == [threw |-> FALSE, message |-> "", hits |-> hits]

\* forEachHour with the threshold compared exclusively.
RECURSIVE forEachHourStrict(_, _, _, _, _)
forEachHourStrict(hourly, threshold, cutoff, i, hits) ==
  IF i > Len(hourly.time) THEN Returned(hits)
  ELSE IF DateParse(hourly.time[i]) > cutoff
       THEN forEachHourStrict(hourly, threshold, cutoff, i + 1, hits)
  ELSE IF ~hourly.hasHeights
       THEN Threw("Cannot read properties of undefined (reading '<index>')")
  ELSE IF i <= Len(hourly.wave_height) /\ hourly.wave_height[i] > threshold
       THEN forEachHourStrict(hourly, threshold, cutoff, i + 1,
                              Append(hits, [iso |-> hourly.time[i], meters |-> hourly.wave_height[i]]))
  ELSE forEachHourStrict(hourly, threshold, cutoff, i + 1, hits)

\* index.js: hourly.time.forEach; an hour past the cutoff is skipped.
RECURSIVE forEachHour(_, _, _, _, _)
forEachHour(hourly, threshold, cutoff, i, hits) ==
  IF i > Len(hourly.time) THEN Returned(hits)
  ELSE IF DateParse(hourly.time[i]) > cutoff
       THEN forEachHour(hourly, threshold, cutoff, i + 1, hits)
  ELSE IF ~hourly.hasHeights
       THEN Threw("Cannot read properties of undefined (reading '<index>')")
  ELSE IF i <= Len(hourly.wave_height) /\ hourly.wave_height[i] >= threshold
       THEN forEachHour(hourly, threshold, cutoff, i + 1,
                        Append(hits, [iso |-> hourly.time[i], meters |-> hourly.wave_height[i]]))
  ELSE forEachHour(hourly, threshold, cutoff, i + 1, hits)

nextExceedances(hourly, threshold, daysAhead, now) ==
  LET cutoff == now + daysAhead * 24 * 3600 * 1000
  IN  IF ~hourly.hasHourly THEN Threw("Cannot read properties of undefined (reading 'time')")
      ELSE IF ~hourly.hasTime
           THEN Threw("Cannot read properties of undefined (reading 'forEach')")
      ELSE forEachHour(hourly, threshold, cutoff, 1, << >>)

\* forHourBreak breaking already at an hour equal to the cutoff.
RECURSIVE forHourBreakAtCutoff(_, _, _, _, _)
forHourBreakAtCutoff(hourly, threshold, cutoff, i, hits) ==
  IF i > Len(hourly.time) THEN Returned(hits)
  ELSE IF DateParse(hourly.time[i]) >= cutoff THEN Returned(hits)
  ELSE IF ~hourly.hasHeights
       THEN Threw("Cannot read properties of undefined (reading '<index>')")
  ELSE IF i <= Len(hourly.wave_height) /\ hourly.wave_height[i] >= threshold
       THEN forHourBreakAtCutoff(hourly, threshold, cutoff, i + 1,
                                 Append(hits, [iso |-> hourly.time[i], meters |-> hourly.wave_height[i]]))
  ELSE forHourBreakAtCutoff(hourly, threshold, cutoff, i + 1, hits)

\* wave-alert.js: the for loop breaks at the first hour past the cutoff.
RECURSIVE forHourBreak(_, _, _, _, _)
forHourBreak(hourly, threshold, cutoff, i, hits) ==
  IF i > Len(hourly.time) THEN Returned(hits)
  ELSE IF DateParse(hourly.time[i]) > cutoff THEN Returned(hits)
  ELSE IF ~hourly.hasHeights
       THEN Threw("Cannot read properties of undefined (reading '<index>')")
  ELSE IF i <= Len(hourly.wave_height) /\ hourly.wave_height[i] >= threshold
       THEN forHourBreak(hourly, threshold, cutoff, i + 1,
                         Append(hits, [iso |-> hourly.time[i], meters |-> hourly.wave_height[i]]))
  ELSE forHourBreak(hourly, threshold, cutoff, i + 1, hits)

nextExceedancesBreak(hourly, threshold, daysAhead, now) ==
  LET cutoff == now + daysAhead * 24 * 3600 * 1000
  IN  IF ~hourly.hasHourly THEN Threw("Cannot read properties of undefined (reading 'time')")
      ELSE IF ~hourly.hasTime
           THEN Threw("Cannot read properties of undefined (reading 'length')")
      ELSE forHourBreak(hourly, threshold, cutoff, 1, << >>)

\* ---------------------------------------------------------------- group
\* grouped: the object built by hits.reduce, as its entries in insertion
\* order (Object.entries of string keys), each [day, arr].
\* dayKey on the full calendar date instead of the weekday alone.
dayKeyFullDate(h) ==
  ToString((DateParse(h.iso) + TzOffsetHours * MsPerHour) \div MsPerDay)

dayKey(h) == weekdayLabel(h.iso)

RECURSIVE pushInto(_, _, _, _)
pushInto(acc, day, h, k) ==
  IF k > Len(acc) THEN Append(acc, [day |-> day, arr |-> << h >>])
  ELSE IF acc[k].day = day THEN [acc EXCEPT ![k].arr = Append(@, h)]
  ELSE pushInto(acc, day, h, k + 1)

RECURSIVE groupFrom(_, _, _)
groupFrom(hits, i, acc) ==
  IF i > Len(hits) THEN acc
  ELSE groupFrom(hits, i + 1, pushInto(acc, dayKey(hits[i]), hits[i], 1))

groupByDay(hits) == groupFrom(hits, 1, << >>)

\* peakPick keeping the left element on equal heights.
peakPickKeepLeft(a, b) == IF a.meters >= b.meters THEN a ELSE b

\* peakPick with the comparison turned round.
peakPickLower(a, b) == IF a.meters < b.meters THEN a ELSE b

\* The callback of arr.reduce((a, b) => (a.meters > b.meters ? a : b)).
peakPick(a, b) == IF a.meters > b.meters THEN a ELSE b

RECURSIVE reduceFrom(_, _, _)
reduceFrom(arr, i, a) ==
  IF i > Len(arr) THEN a ELSE reduceFrom(arr, i + 1, peakPick(a, arr[i]))

\* reduce without an initial value: starts from arr[1]; arr is never empty.
peakOf(arr) == reduceFrom(arr, 2, arr[1])

\* One "- <day>: peak ~<cm> cm at <HH:mm>" line; max is the hit it shows.
peakLine(entry) ==
  LET max == peakOf(entry.arr)
  IN  [day |-> entry.day, max |-> max, cm |-> metersToCm(max.meters), at |-> fmtHourLocal(max.iso)]

peakLines(grouped) == [k \in 1..Len(grouped) |-> peakLine(grouped[k])]

\* ---------------------------------------------------------------- report
\* A location's text block.  kind "error" is `[<name>] Error: <message>`,
\* "none" is `[<name>] No waves >= <threshold>m in next <days> days`, "report"
\* is the header, the threshold line and the peak lines.
ErrorLine(loc, message) ==
  [kind |-> "error", name |-> loc.name, message |-> message, lat |-> 0, lon |-> 0,
   threshold |-> 0, days |-> 0, lines |-> << >>]

NoWavesLine(loc, threshold, days) ==
  [kind |-> "none", name |-> loc.name, message |-> "", lat |-> 0, lon |-> 0,
   threshold |-> threshold, days |-> days, lines |-> << >>]

PeakReport(loc, threshold, lines) ==
  [kind |-> "report", name |-> loc.name, message |-> "", lat |-> toFixed3(loc.lat),
   lon |-> toFixed3(loc.lon), threshold |-> metersToCm(threshold), days |-> 0, lines |-> lines]

Fulfilled(report) == [settled |-> "fulfilled", value |-> report]
Rejected(loc, message) == [settled |-> "rejected", value |-> ErrorLine(loc, message)]

\* checkLocation without its try/catch: a throw rejects the promise.
checkLocationNoCatch(loc, res, threshold, days, now) ==
  LET fetched == fetchWaveForecast(res)
      found == nextExceedances(fetched.forecast, threshold, days, now)
  IN  IF fetched.threw THEN Rejected(loc, fetched.message)
      ELSE IF found.threw THEN Rejected(loc, found.message)
      ELSE IF Len(found.hits) = 0 THEN Fulfilled(NoWavesLine(loc, threshold, days))
      ELSE Fulfilled(PeakReport(loc, threshold, peakLines(groupByDay(found.hits))))

\* checkLocation: how the promise it returns settles, given the provider's
\* answer and the instant Date.now() gives inside nextExceedances.  The
\* try/catch turns every throw into the error line.
checkLocation(loc, res, threshold, days, now) ==
  LET fetched == fetchWaveForecast(res)
      found == nextExceedances(fetched.forecast, threshold, days, now)
  IN  IF fetched.threw THEN Fulfilled(ErrorLine(loc, fetched.message))
      ELSE IF found.threw THEN Fulfilled(ErrorLine(loc, found.message))
      ELSE IF Len(found.hits) = 0 THEN Fulfilled(NoWavesLine(loc, threshold, days))
      ELSE Fulfilled(PeakReport(loc, threshold, peakLines(groupByDay(found.hits))))

\* ---------------------------------------------------------------- run
\* The piece reports.join('\n\n') puts between two blocks.
BlankLine ==
  [kind |-> "blank-line", name |-> "", message |-> "", lat |-> 0, lon |-> 0,
   threshold |-> 0, days |-> 0, lines |-> << >>]

RECURSIVE joinFrom(_, _, _, _)
joinFrom(arr, sep, i, acc) ==
  IF i > Len(arr) THEN acc
  ELSE joinFrom(arr, sep, i + 1, IF i = 1 THEN << arr[1] >> ELSE acc \o << sep, arr[i] >>)

\* Array.prototype.join: the message as its pieces, blocks and separators.
join(arr, sep) == joinFrom(arr, sep, 1, << >>)

\* Promise.all keeps one slot per input promise, at the promise's index.
PendingSlot == [settled |-> "pending", value |-> BlankLine]

\* Results pushed as they arrive: the first free slot takes the outcome.
collectInCompletionOrder(slots, i, outcome) ==
  LET free == { k \in 1..Len(slots) : slots[k].settled = "pending" }
      k == IF free = {} THEN i ELSE CHOOSE m \in free : \A n \in free : m <= n
  IN  [slots EXCEPT ![k] = outcome]

promiseAllCollect(slots, i, outcome) == [slots EXCEPT ![i] = outcome]

\* Fulfilled as soon as one input promise is, as Promise.any is.
someFulfilled(slots) == \E i \in 1..Len(slots) : slots[i].settled = "fulfilled"

\* Promise.all fulfils once every input promise has, and rejects as soon as one does.
allFulfilled(slots) == \A i \in 1..Len(slots) : slots[i].settled = "fulfilled"
anyRejected(slots) == \E i \in 1..Len(slots) : slots[i].settled = "rejected"

PendingFetch == [state |-> "pending", res |-> NetworkFailure]

IdleRun ==
  [pc |-> "idle",
   fetch |-> [i \in 1..Len(LOCATIONS) |-> PendingFetch],
   reports |-> [i \in 1..Len(LOCATIONS) |-> PendingSlot],
   mail |-> << >>,
   sends |-> 0,
   send |-> "",
   log |-> ""]

\* runOnce up to its first await: LOCATIONS.map(checkLocation) has issued every fetch.
startRun(run) == [run EXCEPT !.pc = "fetching"]

\* runOnce is over: its reports and its message are gone with its frame;
\* what stays is what the run did to the outside (sends, send, log).
runReturns(run) ==
  [run EXCEPT !.pc = "done",
              !.fetch = [i \in 1..Len(LOCATIONS) |-> [PendingFetch EXCEPT !.state = "over"]],
              !.reports = IdleRun.reports,
              !.mail = << >>]

\* runOnce without its catch: the rejection of sgMail.send is unhandled and
\* ends the process.
noCatchOfMailError(run, proc) ==
  [run |-> [runReturns(run) EXCEPT !.send = "rejected"], process |-> "crashed"]

\* The catch of runOnce after sgMail.send rejected: log, and the run is over.
catchMailError(run, proc) ==
  [run |-> [runReturns(run) EXCEPT !.send = "rejected", !.log = "[MAIL] Error"],
   process |-> proc]

\* Hourly series the provider answers with in a run: nothing at or above the
\* threshold, and exceedances on two days.
CalmBody == Body(TRUE, << 34, 38, 58 >>, TRUE, << 500, 795, 500 >>)
RoughBody == Body(TRUE, << 34, 38, 58 >>, TRUE, << 1205, 800, 1205 >>)
RunResponses ==
  { NetworkFailure, HttpResponse(500, NoBody), HttpResponse(200, CalmBody),
    HttpResponse(200, RoughBody) }

\* Date.now() at the first run; cron fires once a day.
StartNow == DateParse(10)
NowAt(k) == StartNow + (k - 1) * MsPerDay

VARIABLES scheduled, started, runs, process, input, out

vars == << scheduled, started, runs, process, input, out >>

RunIds == 1..MaxRuns

NoInput == [res |-> NetworkFailure, now |-> 0, threshold |-> 0, days |-> 0]
NoOutput == [op |-> "", found |-> Returned(<< >>), promise |-> Fulfilled(BlankLine)]

Init ==
  /\ scheduled = FALSE
  /\ started = 0
  /\ runs = [r \in RunIds |-> IdleRun]
  /\ process = "running"
  /\ input = NoInput
  /\ out = NoOutput

\* main(): cron.schedule(CRON_SCHEDULE, runOnce), then runOnce() at once.
Main ==
  /\ process = "running"
  /\ ~scheduled
  /\ scheduled' = TRUE
  /\ started' = 1
  /\ runs' = [runs EXCEPT ![1] = startRun(@)]
  /\ UNCHANGED << process, input, out >>

\* The cron trigger fires runOnce; nothing looks at the runs in flight.
CronTick ==
  /\ process = "running"
  /\ scheduled
  /\ started < MaxRuns
  /\ started' = started + 1
  /\ runs' = [runs EXCEPT ![started + 1] = startRun(@)]
  /\ UNCHANGED << scheduled, process, input, out >>

\* The fetch of location i of run r settles and checkLocation runs to its end.
FetchSettles(r, i, res) ==
  /\ process = "running"
  /\ runs[r].pc # "idle"
  /\ runs[r].fetch[i].state = "pending"
  /\ LET now == NowAt(started)
         outcome == checkLocation(LOCATIONS[i], res, THRESHOLD_METERS, LOOKAHEAD_DAYS, now)
     IN  runs' = [runs EXCEPT
                    ![r].fetch[i] = [state |-> "settled", res |-> res],
                    ![r].reports = promiseAllCollect(@, i, outcome)]
  /\ UNCHANGED << scheduled, started, process, input, out >>

\* await Promise.all(...) resumes runOnce: the message is joined and
\* sendMailAsync calls sgMail.send; a rejection goes to the catch instead.
AllSettled(r) ==
  /\ process = "running"
  /\ runs[r].pc = "fetching"
  /\ IF anyRejected(runs[r].reports)
     THEN runs' = [runs EXCEPT ![r] = [runReturns(@) EXCEPT !.log = "[MAIL] Error"]]
     ELSE /\ allFulfilled(runs[r].reports)
          /\ LET msg == join([i \in 1..Len(LOCATIONS) |-> runs[r].reports[i].value], BlankLine)
             IN  runs' = [runs EXCEPT ![r].pc = "sending", ![r].mail = Append(@, msg),
                                      ![r].sends = @ + 1]
  /\ UNCHANGED << scheduled, started, process, input, out >>

\* sgMail.send resolved.
SendResolves(r) ==
  /\ process = "running"
  /\ runs[r].pc = "sending"
  /\ runs' = [runs EXCEPT ![r] = [runReturns(@) EXCEPT !.send = "resolved",
                                                       !.log = "[MAIL] Sent successfully"]]
  /\ UNCHANGED << scheduled, started, process, input, out >>

\* sgMail.send rejected.
SendRejects(r) ==
  /\ process = "running"
  /\ runs[r].pc = "sending"
  /\ LET after == catchMailError(runs[r], process)
     IN  /\ runs' = [runs EXCEPT ![r] = after.run]
         /\ process' = after.process
  /\ UNCHANGED << scheduled, started, input, out >>

Next ==
  \/ Main
  \/ CronTick
  \/ \E r \in RunIds, i \in 1..Len(LOCATIONS), res \in RunResponses : FetchSettles(r, i, res)
  \/ \E r \in RunIds : AllSettled(r)
  \/ \E r \in RunIds : SendResolves(r)
  \/ \E r \in RunIds : SendRejects(r)

Spec == Init /\ [][Next]_vars

\* ---------------------------------------------------------------- one location
\* checkLocation and the two nextExceedances applied to one answer of the
\* provider.  The answers: every pair of a `time` and a `wave_height` array
\* of up to MaxLen entries, each possibly absent, in any order and of any
\* two lengths; a body without `hourly`; non-success statuses; a failed request.
IsoTimes == { 34, 38, 58, 202 }
Heights == { 795, 800, 1205 }

SeqsUpTo(S, n) == UNION { [1..k -> S] : k \in 0..n }

Bodies ==
  { NoBody }
    \cup { Body(TRUE, t, TRUE, h) : t \in SeqsUpTo(IsoTimes, MaxLen), h \in SeqsUpTo(Heights, MaxLen) }
    \cup { Body(FALSE, << >>, TRUE, h) : h \in SeqsUpTo(Heights, MaxLen) }
    \cup { Body(TRUE, t, FALSE, << >>) : t \in SeqsUpTo(IsoTimes, MaxLen) }
    \cup { Body(FALSE, << >>, FALSE, << >>) }

LocationResponses ==
  { NetworkFailure, HttpResponse(500, NoBody), HttpResponse(404, NoBody) }
    \cup { HttpResponse(200, b) : b \in Bodies }

\* Date.now() with THRESHOLD_METERS and LOOKAHEAD_DAYS as the environment may
\* set them.  At 1970-01-01T10:00 local the default cutoff is the hour 58
\* itself; at 1970-01-07T12:30 local it lies past every hour of IsoTimes;
\* with 1.205 m and one day it is the hour 34.
Settings ==
  { [now |-> DateParse(10), threshold |-> THRESHOLD_METERS, days |-> LOOKAHEAD_DAYS],
    [now |-> DateParse(156) + 30 * 60000, threshold |-> THRESHOLD_METERS, days |-> LOOKAHEAD_DAYS],
    [now |-> DateParse(10), threshold |-> 1205, days |-> 1] }

InitLocation ==
  /\ scheduled = FALSE
  /\ started = 0
  /\ runs = [r \in RunIds |-> IdleRun]
  /\ process = "running"
  /\ \E res \in LocationResponses, cfg \in Settings :
       input = [res |-> res, now |-> cfg.now, threshold |-> cfg.threshold, days |-> cfg.days]
  /\ out = NoOutput

\* index.js nextExceedances on the parsed body.
ApplyNextExceedances ==
  /\ out.op = ""
  /\ ~fetchWaveForecast(input.res).threw
  /\ out' = [out EXCEPT !.op = "nextExceedances",
                        !.found = nextExceedances(input.res.body, input.threshold, input.days, input.now)]
  /\ UNCHANGED << scheduled, started, runs, process, input >>

\* wave-alert.js nextExceedances on the parsed body.
ApplyNextExceedancesBreak ==
  /\ out.op = ""
  /\ ~fetchWaveForecast(input.res).threw
  /\ out' = [out EXCEPT !.op = "nextExceedancesBreak",
                        !.found = nextExceedancesBreak(input.res.body, input.threshold, input.days, input.now)]
  /\ UNCHANGED << scheduled, started, runs, process, input >>

\* checkLocation on the provider's answer.
ApplyCheckLocation ==
  /\ out.op = ""
  /\ out' = [out EXCEPT !.op = "checkLocation",
                        !.promise = checkLocation(LOCATIONS[1], input.res, input.threshold,
                                                  input.days, input.now)]
  /\ UNCHANGED << scheduled, started, runs, process, input >>

NextLocation ==
  \/ ApplyNextExceedances
  \/ ApplyNextExceedancesBreak
  \/ ApplyCheckLocation

SpecLocation == InitLocation /\ [][NextLocation]_vars

\* ================================================================ claims
\* ---------------------------------------------------------------- shared
InBody == input.res.body
InCutoff == input.now + input.days * MsPerDay

\* A series: both arrays present and of one length.
WellFormed(b) ==
  b.hasHourly /\ b.hasTime /\ b.hasHeights /\ Len(b.time) = Len(b.wave_height)

Ascending(t) == \A i, j \in 1..Len(t) : i < j => DateParse(t[i]) <= DateParse(t[j])

\* The positions of the hours that meet both conditions.
Qualifying(b, threshold, cutoff) ==
  { i \in 1..Len(b.time) : b.wave_height[i] >= threshold /\ DateParse(b.time[i]) <= cutoff }

KthOf(Q, k) == CHOOSE i \in Q : Cardinality({ j \in Q : j < i }) = k - 1

\* hits is exactly the qualifying hours, in input order.
ExactSubsequence(hits, b, threshold, cutoff) ==
  LET Q == Qualifying(b, threshold, cutoff)
  IN  /\ Len(hits) = Cardinality(Q)
      /\ \A k \in 1..Len(hits) :
           hits[k] = [iso |-> b.time[KthOf(Q, k)], meters |-> b.wave_height[KthOf(Q, k)]]

NonDecreasing(hits) ==
  \A k, l \in 1..Len(hits) : k < l => DateParse(hits[k].iso) <= DateParse(hits[l].iso)

Detected == out.op \in { "nextExceedances", "nextExceedancesBreak" }

\* C5 as stated: for every hourly series, threshold and lookahead,
\* nextExceedances (either file's) returns exactly the hours with height >=
\* threshold and timestamp <= now + lookaheadDays, in input order, and in
\* non-decreasing timestamp order when the input is ascending.
C5_AsStated ==
  (Detected /\ WellFormed(InBody)) =>
    /\ ~out.found.threw
    /\ ExactSubsequence(out.found.hits, InBody, input.threshold, InCutoff)
    /\ (Ascending(InBody.time) => NonDecreasing(out.found.hits))

\* C5 amended: the same holds of index.js's nextExceedances for every
\* series, and of wave-alert.js's nextExceedances for every series whose
\* timestamps are ascending.
C5_ExactHits ==
  (Detected /\ WellFormed(InBody)
     /\ (out.op = "nextExceedancesBreak" => Ascending(InBody.time))) =>
    /\ ~out.found.threw
    /\ ExactSubsequence(out.found.hits, InBody, input.threshold, InCutoff)
    /\ (Ascending(InBody.time) => NonDecreasing(out.found.hits))

\* index.js's scan has run over an unordered series with an hour past the
\* cutoff in front of a qualifying hour, an hour at the threshold and one below.
C5_Witness ==
  /\ out.op = "nextExceedances"
  /\ WellFormed(InBody)
  /\ ~Ascending(InBody.time)
  /\ \E i, j \in 1..Len(InBody.time) :
       /\ i < j
       /\ DateParse(InBody.time[i]) > InCutoff
       /\ j \in Qualifying(InBody, input.threshold, InCutoff)
       /\ InBody.wave_height[j] = input.threshold
  /\ \E i \in 1..Len(InBody.time) : InBody.wave_height[i] < input.threshold
  /\ Len(out.found.hits) >= 1

\* C10: for every series whose timestamps are ascending, index.js's full
\* scan and wave-alert.js's break at the first hour past the cutoff return
\* the identical sequence of hits (and throw in the same cases).
C10_SamePolicies ==
  (InBody.hasHourly /\ InBody.hasTime /\ Ascending(InBody.time)) =>
    /\ out.op = "nextExceedances" =>
         LET other == nextExceedancesBreak(InBody, input.threshold, input.days, input.now)
         IN  out.found.hits = other.hits /\ out.found.threw = other.threw
    /\ out.op = "nextExceedancesBreak" =>
         LET other == nextExceedances(InBody, input.threshold, input.days, input.now)
         IN  out.found.hits = other.hits /\ out.found.threw = other.threw

\* The break variant has stopped at an hour past the cutoff of an ascending
\* series, after a hit at the cutoff itself.
C10_Witness ==
  /\ out.op = "nextExceedancesBreak"
  /\ WellFormed(InBody)
  /\ Ascending(InBody.time)
  /\ \E i \in 1..Len(InBody.time) : DateParse(InBody.time[i]) > InCutoff
  /\ \E k \in 1..Len(out.found.hits) : DateParse(out.found.hits[k].iso) = InCutoff

\* ---------------------------------------------------------------- peaks
\* checkLocation has rendered a header with peak lines.
Rendered == out.op = "checkLocation" /\ out.promise.value.kind = "report"
Lines == out.promise.value.lines

\* The hits checkLocation grouped: what nextExceedances gave it.
InHits == nextExceedances(InBody, input.threshold, input.days, input.now).hits

Labels == { weekdayLabel(InHits[i].iso) : i \in 1..Len(InHits) }

\* The positions in hits of the bucket of a weekday label.
Bucket(label) == { i \in 1..Len(InHits) : weekdayLabel(InHits[i].iso) = label }

Highest(B) == CHOOSE m \in { InHits[i].meters : i \in B } : \A i \in B : InHits[i].meters <= m

\* The positions of a bucket's hits that share its greatest height.
Tied(label) == { i \in Bucket(label) : InHits[i].meters = Highest(Bucket(label)) }

First(S) == CHOOSE i \in S : \A j \in S : i <= j
Last(S) == CHOOSE i \in S : \A j \in S : j <= i

C8_OnePeakPerBucket ==
  Rendered =>
    /\ Len(InHits) > 0
    /\ \A label \in Labels : Cardinality({ k \in 1..Len(Lines) : Lines[k].day = label }) = 1
    /\ \A k \in 1..Len(Lines) :
         /\ Lines[k].day \in Labels
         /\ \E i \in Bucket(Lines[k].day) : Lines[k].max = InHits[i]
         /\ \A i \in Bucket(Lines[k].day) : Lines[k].max.meters >= InHits[i].meters
         /\ Lines[k].cm = metersToCm(Lines[k].max.meters)

\* Two buckets, one of them with a lower hit after its peak.
C8_Witness ==
  /\ Rendered
  /\ Len(Lines) = 2
  /\ \E k \in 1..Len(Lines) :
       \E i, j \in Bucket(Lines[k].day) : i < j /\ InHits[i].meters > InHits[j].meters

\* The line a hit is counted under.
LineOf(i) == { k \in 1..Len(Lines) : Lines[k].day = weekdayLabel(InHits[i].iso) }

\* C9: the grouping key is the weekday label alone: two hits with the same
\* label, from the same week or not, are in one bucket, and there are as
\* many buckets as distinct labels among the hits, at most 7.
C9_WeekdayBuckets ==
  Rendered =>
    /\ Len(Lines) = Cardinality(Labels)
    /\ Len(Lines) <= 7
    /\ \A i, j \in 1..Len(InHits) :
         weekdayLabel(InHits[i].iso) = weekdayLabel(InHits[j].iso) =>
           LineOf(i) = LineOf(j) /\ Cardinality(LineOf(i)) = 1

\* Hits a week apart under one line.
C9_Witness ==
  /\ Rendered
  /\ \E i, j \in 1..Len(InHits) :
       /\ DateParse(InHits[j].iso) - DateParse(InHits[i].iso) >= 7 * MsPerDay
       /\ weekdayLabel(InHits[i].iso) = weekdayLabel(InHits[j].iso)
       /\ Cardinality(LineOf(i) \cup LineOf(j)) = 1

\* ---------------------------------------------------------------- payload
NonSuccess(res) == ~res.rejects /\ ~(res.status >= 200 /\ res.status <= 299)

\* C6 as stated: a non-success status, a payload without `time` or
\* `wave_height`, or arrays of different lengths give the location the
\* `[<name>] Error: <message>` line, never a report computed from the series.
C6_AsStated ==
  (out.op = "checkLocation" /\ ~input.res.rejects
     /\ (NonSuccess(input.res) \/ ~WellFormed(InBody))) =>
    out.promise.value.kind = "error"

\* ---------------------------------------------------------------- runs
N == Len(LOCATIONS)
\* The run's message is with the notifier.
Mailed(r) == Len(runs[r].mail) >= 1

\* The fetch of a location failed: the request threw or the status was not a success.
FetchFailed(res) == res.rejects \/ ~(res.status >= 200 /\ res.status <= 299)
FailureMessage(res) == IF res.rejects THEN "fetch failed" ELSE "API error 500"

\* The block location i gets from this answer when it is the only location asked.
Alone(i, res) ==
  { checkLocation(LOCATIONS[i], res, THRESHOLD_METERS, LOOKAHEAD_DAYS, NowAt(k)).value :
      k \in 1..MaxRuns }

Blocks(msg) == { k \in 1..Len(msg) : msg[k].kind # "blank-line" }

\* C1: whatever subset of the N fetches fails, checkLocation never rejects;
\* the message has exactly N blocks, a failing location's block is its
\* `[<name>] Error: <message>` line and every other block is the normal or
\* no-exceedance report that location gets when none fails.
C1_FailuresStayLocal ==
  \A r \in RunIds :
    /\ \A i \in 1..N :
         /\ runs[r].reports[i].settled # "rejected"
         /\ runs[r].fetch[i].state = "settled" => runs[r].reports[i].settled = "fulfilled"
    /\ runs[r].pc = "done" => runs[r].sends = 1
    /\ Mailed(r) =>
         LET msg == runs[r].mail[1]
         IN  /\ Cardinality(Blocks(msg)) = N
             /\ \A i \in 1..N :
                  LET res == runs[r].fetch[i].res
                  IN  IF FetchFailed(res)
                      THEN msg[2 * i - 1] = ErrorLine(LOCATIONS[i], FailureMessage(res))
                      ELSE /\ msg[2 * i - 1].kind \in { "report", "none" }
                           /\ msg[2 * i - 1] \in Alone(i, res)

\* A sent message in which one location failed and the other has its peak report.
C1_Witness ==
  \E r \in RunIds :
    /\ Mailed(r)
    /\ FetchFailed(runs[r].fetch[1].res)
    /\ runs[r].mail[1][1].kind = "error"
    /\ runs[r].mail[1][3].kind = "report"

\* C2: in every run, overlapping another or not, the notifier is called
\* exactly once, only after every location's branch has completed, and with
\* the composite of all of the run's reports.
C2_OneSendAfterJoin ==
  \A r \in RunIds :
    /\ runs[r].sends <= 1
    /\ runs[r].pc \in { "sending", "done" } => runs[r].sends = 1
    /\ runs[r].pc \in { "idle", "fetching" } => runs[r].sends = 0
    /\ runs[r].pc = "sending" <=> Len(runs[r].mail) = 1
    /\ Len(runs[r].mail) <= 1
    /\ Mailed(r) =>
         /\ \A i \in 1..N :
              runs[r].fetch[i].state = "settled" /\ runs[r].reports[i].settled = "fulfilled"
         /\ runs[r].mail[1] = join([i \in 1..N |-> runs[r].reports[i].value], BlankLine)

\* The cron run has handed over its message, every location having
\* failed, while the start-up run is still waiting for a fetch.
C2_Witness ==
  /\ runs[1].pc = "fetching"
  /\ \E i \in 1..N : runs[1].fetch[i].state = "pending"
  /\ runs[2].pc = "sending"
  /\ runs[2].sends = 1
  /\ \A i \in 1..N : FetchFailed(runs[2].fetch[i].res)

\* C3: whatever the order in which the fetches complete, the i-th block of
\* the message is the report of the i-th location, and a blank line
\* separates consecutive blocks.
C3_InputOrder ==
  \A r \in RunIds :
    /\ \A i \in 1..N :
         runs[r].reports[i].settled = "fulfilled" =>
           /\ runs[r].fetch[i].state = "settled"
           /\ runs[r].reports[i].value.name = LOCATIONS[i].name
           /\ runs[r].reports[i].value \in Alone(i, runs[r].fetch[i].res)
    /\ Mailed(r) =>
         LET msg == runs[r].mail[1]
         IN  /\ Len(msg) = 2 * N - 1
             /\ \A i \in 1..N :
                  /\ msg[2 * i - 1].name = LOCATIONS[i].name
                  /\ msg[2 * i - 1] \in Alone(i, runs[r].fetch[i].res)
             /\ \A i \in 1..(N - 1) : msg[2 * i] = BlankLine

\* The last location's fetch completed while the first one's is pending,
\* and its report sits in the last slot.
C3_Witness ==
  \E r \in RunIds :
    /\ runs[r].fetch[1].state = "pending"
    /\ runs[r].reports[1].settled = "pending"
    /\ runs[r].fetch[N].state = "settled"
    /\ runs[r].reports[N].value.kind = "report"
    /\ runs[r].reports[N].value.name = LOCATIONS[N].name

SendFailed(r) == runs[r].send = "rejected"

\* C4: a failed send is only logged: the run does not send again, runOnce
\* ends with the rejection handled, the process lives, the cron trigger can
\* still start the next run, and a later run sends its own message.
C4_SendFailureLogged ==
  /\ \A r \in RunIds :
       SendFailed(r) =>
         /\ runs[r].pc = "done"
         /\ runs[r].sends = 1
         /\ runs[r].log = "[MAIL] Error"
         /\ process = "running"
         /\ started < MaxRuns => ENABLED CronTick
  /\ \A r1, r2 \in RunIds :
       (r1 < r2 /\ SendFailed(r1) /\ runs[r2].pc = "done") => runs[r2].sends = 1
  /\ process = "running"

\* The first run's send failed, and the run after it sent its own message.
C4_Witness ==
  /\ SendFailed(1)
  /\ runs[2].pc = "done"
  /\ runs[2].send = "resolved"
  /\ runs[1].sends = 1
  /\ runs[2].sends = 1

====
